---- MODULE Spec2Model ----
(***************************************************************************)
(* computeStatistics.py: leer_archivo, CalculadoraEstadistica and main.    *)
(*                                                                         *)
(* The values of the program are Python floats (IEEE-754 binary64).  They  *)
(* are modelled exactly: a finite float is sign * m * 2^e with m a natural *)
(* below 2^53 held as a little-endian sequence of 15-bit limbs (TLC's own  *)
(* integers are 32 bits wide), and every arithmetic operation rounds to    *)
(* nearest, ties to even, as the hardware does.                            *)
(***************************************************************************)
EXTENDS Integers, Sequences, FiniteSets, TLC

\* ------------------------------------------------------------------------
\* Naturals of arbitrary size: little-endian limbs, no leading zero limb.
\* ------------------------------------------------------------------------
Base == 2^15

RECURSIVE IntBitLen(_)
IntBitLen(n) == IF n = 0 THEN 0 ELSE 1 + IntBitLen(n \div 2)

LimbBits == IntBitLen(Base) - 1

RECURSIVE BNorm(_)
BNorm(a) ==
    IF a = <<>> THEN <<>>
    ELSE IF a[Len(a)] = 0 THEN BNorm(SubSeq(a, 1, Len(a) - 1))
    ELSE a

RECURSIVE BAddC(_, _, _)
BAddC(a, b, c) ==
    IF a = <<>> /\ b = <<>> THEN (IF c = 0 THEN <<>> ELSE <<c>>)
    ELSE LET x == IF a = <<>> THEN 0 ELSE Head(a)
             y == IF b = <<>> THEN 0 ELSE Head(b)
             t == x + y + c
         IN  <<t % Base>> \o BAddC(IF a = <<>> THEN <<>> ELSE Tail(a),
                                   IF b = <<>> THEN <<>> ELSE Tail(b),
                                   t \div Base)

BAdd(a, b) == BAddC(a, b, 0)

\* a - b - c for a >= b + c
RECURSIVE BSubC(_, _, _)
BSubC(a, b, c) ==
    IF a = <<>> THEN <<>>
    ELSE LET y == IF b = <<>> THEN 0 ELSE Head(b)
             t == Head(a) - y - c
         IN  <<IF t < 0 THEN t + Base ELSE t>>
               \o BSubC(Tail(a), IF b = <<>> THEN <<>> ELSE Tail(b),
                        IF t < 0 THEN 1 ELSE 0)

BSub(a, b) == BNorm(BSubC(a, b, 0))

\* -1, 0, 1 as a < b, a = b, a > b
RECURSIVE BCmpFrom(_, _, _)
BCmpFrom(a, b, i) ==
    IF i = 0 THEN 0
    ELSE IF a[i] < b[i] THEN -1
    ELSE IF a[i] > b[i] THEN 1
    ELSE BCmpFrom(a, b, i - 1)

BCmp(a, b) ==
    IF Len(a) < Len(b) THEN -1
    ELSE IF Len(a) > Len(b) THEN 1
    ELSE BCmpFrom(a, b, Len(a))

\* a * c + carry for 0 <= c < Base
RECURSIVE BMulSmallC(_, _, _)
BMulSmallC(a, c, carry) ==
    IF a = <<>> THEN (IF carry = 0 THEN <<>> ELSE <<carry>>)
    ELSE LET t == Head(a) * c + carry
         IN  <<t % Base>> \o BMulSmallC(Tail(a), c, t \div Base)

BMulSmall(a, c) == BNorm(BMulSmallC(a, c, 0))

RECURSIVE BMul(_, _)
BMul(a, b) ==
    IF a = <<>> \/ b = <<>> THEN <<>>
    ELSE BNorm(BAdd(BMulSmall(a, Head(b)), <<0>> \o BMul(a, Tail(b))))

\* quotient and remainder of a by 0 < c < Base, from the top limb down
RECURSIVE BDivSmallFrom(_, _, _, _)
BDivSmallFrom(a, c, i, r) ==
    IF i = 0 THEN [q |-> <<>>, r |-> r]
    ELSE LET t    == r * Base + a[i]
             rest == BDivSmallFrom(a, c, i - 1, t % c)
         IN  [q |-> rest.q \o <<t \div c>>, r |-> rest.r]

BDivSmall(a, c) ==
    LET d == BDivSmallFrom(a, c, Len(a), 0)
    IN  [q |-> BNorm(d.q), r |-> d.r]

BZeros(k) == [i \in 1..k |-> 0]

BShl(a, k) ==
    IF a = <<>> THEN <<>>
    ELSE BZeros(k \div LimbBits) \o BMulSmall(a, 2^(k % LimbBits))

BShr(a, k) ==
    IF k \div LimbBits >= Len(a) THEN <<>>
    ELSE BDivSmall(SubSeq(a, (k \div LimbBits) + 1, Len(a)),
                   2^(k % LimbBits)).q

BBitLen(a) ==
    IF a = <<>> THEN 0
    ELSE LimbBits * (Len(a) - 1) + IntBitLen(a[Len(a)])

BIsOdd(a) == a # <<>> /\ a[1] % 2 = 1

\* ------------------------------------------------------------------------
\* Python float: IEEE-754 binary64.
\* ------------------------------------------------------------------------
Precision == 53
MinExp == -1074
MaxExp == 971

NaN == [k |-> "nan", s |-> 0, m |-> <<>>, e |-> 0]
Inf(s) == [k |-> "inf", s |-> s, m |-> <<>>, e |-> 0]
Fin(s, m, e) == [k |-> "fin", s |-> s, m |-> m, e |-> e]
Zero(s) == Fin(s, <<>>, MinExp)

IsNaN(x) == x.k = "nan"
IsInf(x) == x.k = "inf"
IsFinite(x) == x.k = "fin"
IsZero(x) == x.k = "fin" /\ x.m = <<>>

Max(a, b) == IF a > b THEN a ELSE b
Min(a, b) == IF a < b THEN a ELSE b

\* The float nearest to (-1)^s * M * 2^E, ties to even; overflow gives inf.
\* e1 is the exponent of the result's last place, q the digits kept, c the
\* comparison of the digits dropped with half a unit of the last place.
Pack(s, m, e) == IF e > MaxExp THEN Inf(s) ELSE Fin(s, m, e)

RoundCarry(s, e1, m1) ==
    IF BBitLen(m1) > Precision THEN Pack(s, BShr(m1, 1), e1 + 1)
    ELSE Pack(s, m1, e1)

RoundUp(s, e1, q, c) ==
    RoundCarry(s, e1,
               IF c > 0 \/ (c = 0 /\ BIsOdd(q)) THEN BAdd(q, <<1>>) ELSE q)

RoundShift(s, M, shift, e1, q) ==
    RoundUp(s, e1, q,
            BCmp(BSub(M, BShl(q, shift)), BShl(<<1>>, shift - 1)))

RoundAt(s, M, E, e1) ==
    IF e1 <= E THEN Pack(s, BShl(M, E - e1), e1)
    ELSE RoundShift(s, M, e1 - E, e1, BShr(M, e1 - E))

Round(s, M, E) ==
    IF M = <<>> THEN Zero(s)
    ELSE RoundAt(s, M, E, Max(E + BBitLen(M) - Precision, MinExp))

\* binary places kept below the last place of a result before it is rounded
GuardBits == Precision + 11

FNeg(x) == IF IsNaN(x) THEN x ELSE [x EXCEPT !.s = 1 - x.s]

\* Two finite non-zero floats brought to a common exponent.  An operand more
\* than 128 binary places below the other only decides the direction of
\* rounding: it counts as one unit 64 places below the other's last place.
Far(x, y) == x.e - y.e > 2 * GuardBits \/ y.e - x.e > 2 * GuardBits

AlignedE(x, y) ==
    IF Far(x, y) THEN Max(x.e, y.e) - GuardBits ELSE Min(x.e, y.e)

AlignedM(x, y) ==
    IF Far(x, y) /\ x.e < y.e THEN <<1>> ELSE BShl(x.m, x.e - AlignedE(x, y))

AddAligned(sx, mx, sy, my, e) ==
    IF sx # sy /\ mx = my THEN Zero(0)
    ELSE Round(IF sx = sy \/ BCmp(mx, my) > 0 THEN sx ELSE sy,
               IF sx = sy THEN BAdd(mx, my)
               ELSE IF BCmp(mx, my) > 0 THEN BSub(mx, my)
               ELSE BSub(my, mx),
               e)

\* x + y
FAdd(x, y) ==
    IF IsNaN(x) \/ IsNaN(y) THEN NaN
    ELSE IF IsInf(x) THEN (IF IsInf(y) /\ y.s # x.s THEN NaN ELSE x)
    ELSE IF IsInf(y) THEN y
    ELSE IF IsZero(x) /\ IsZero(y)
         THEN Zero(IF x.s = 1 /\ y.s = 1 THEN 1 ELSE 0)
    ELSE IF IsZero(y) THEN x
    ELSE IF IsZero(x) THEN y
    ELSE AddAligned(x.s, AlignedM(x, y), y.s, AlignedM(y, x), AlignedE(x, y))

\* x - y
FSub(x, y) == FAdd(x, FNeg(y))

\* x * y
FMul(x, y) ==
    IF IsNaN(x) \/ IsNaN(y) THEN NaN
    ELSE IF IsInf(x) \/ IsInf(y)
         THEN (IF IsZero(x) \/ IsZero(y) THEN NaN
               ELSE Inf(IF x.s = y.s THEN 0 ELSE 1))
    ELSE Round(IF x.s = y.s THEN 0 ELSE 1, BMul(x.m, y.m), x.e + y.e)

\* x / n for an int n > 0 (n converts to float exactly); d is the quotient
\* and remainder of the digits of x, shifted up, by n
DivRound(x, d) ==
    Round(x.s, BAdd(BShl(d.q, 1), IF d.r = 0 THEN <<>> ELSE <<1>>),
          x.e - GuardBits - 1)

FDivInt(x, n) ==
    IF ~IsFinite(x) THEN x
    ELSE DivRound(x, BDivSmall(BShl(x.m, GuardBits), n))

\* Python's x == y and x < y on floats
FEq(x, y) ==
    /\ ~IsNaN(x) /\ ~IsNaN(y)
    /\ \/ x = y
       \/ IsZero(x) /\ IsZero(y)

FLt(x, y) ==
    IF IsNaN(x) \/ IsNaN(y) THEN FALSE
    ELSE IF IsZero(x) /\ IsZero(y) THEN FALSE
    ELSE IF x.s # y.s THEN x.s = 1
    ELSE IF x = y THEN FALSE
    ELSE LET below ==   \* |x| < |y|
                 IF IsInf(x) THEN FALSE
                 ELSE IF IsInf(y) THEN TRUE
                 ELSE IF x.e # y.e THEN x.e < y.e
                 ELSE BCmp(x.m, y.m) < 0
         IN  IF x.s = 0 THEN below ELSE ~below

FAbs(x) == IF IsNaN(x) THEN x ELSE [x EXCEPT !.s = 0]

\* The outcome of an expression that may raise: a value or an exception.
Valor(x) == [exc |-> "none", val |-> x]
Lanza(e) == [exc |-> e, val |-> NaN]

\* float ** float is the C library's pow().  Its result is exact when the
\* exact result is a float and otherwise one of the two floats around it:
\* the nearest one, or its neighbour on the other side of the exact result.
\* Which of the two a build returns is the library's matter; pow_cercano
\* tells whether the library of this run returns the nearest one.
VARIABLE pow_cercano

\* the floats next to x (not nan), away from zero and toward zero
Succ(x) == IF IsInf(x) THEN x ELSE Round(x.s, BAdd(x.m, <<1>>), x.e)

Pred(x) ==
    IF IsInf(x) THEN Fin(x.s, BSub(BShl(<<1>>, Precision), <<1>>), MaxExp)
    ELSE IF x.m = BShl(<<1>>, Precision - 1) /\ x.e > MinExp
    THEN Fin(x.s, BSub(BShl(<<1>>, Precision), <<1>>), x.e - 1)
    ELSE Round(x.s, BSub(x.m, <<1>>), x.e)

\* -1, 0, 1 as |x| is below, equal to or above M * 2^E
CmpExactFrom(x, M, E, lo) == BCmp(BShl(x.m, x.e - lo), BShl(M, E - lo))

CmpExact(x, M, E) ==
    IF IsInf(x) THEN 1 ELSE CmpExactFrom(x, M, E, Min(x.e, E))

\* the neighbour of the nearest float on the other side of the exact result
OtroVecino(cerca, c) ==
    IF c = 0 THEN cerca ELSE IF c > 0 THEN Pred(cerca) ELSE Succ(cerca)

PowNearest(s, M, E, cerca, cercano) ==
    IF cercano THEN cerca ELSE OtroVecino(cerca, CmpExact(cerca, M, E))

\* what pow() returns for the exact result (-1)^s * M * 2^E
PowRound(s, M, E, cercano) == PowNearest(s, M, E, Round(s, M, E), cercano)

\* x ** 2 (float_pow with the int 2 converted to 2.0): nan, inf and zero are
\* answered before pow() is called; a finite base whose square overflows
\* raises OverflowError.
Pow2Checked(r) == IF IsInf(r) THEN Lanza("OverflowError") ELSE Valor(r)

Pow2With(x, cercano) ==
    IF IsNaN(x) THEN Valor(x)
    ELSE IF IsInf(x) THEN Valor(Inf(0))
    ELSE IF IsZero(x) THEN Valor(Zero(0))
    ELSE Pow2Checked(PowRound(0, BMul(x.m, x.m), 2 * x.e, cercano))

Pow2(x) == Pow2With(x, pow_cercano)

\* floor(sqrt(M)) one bit at a time, bits b down to stop, then the next
\* eight bits, down to bit 0.  q.r is the root so far and q.rem what is left
\* of M after taking r * r away; t is (r + 2^b)^2 - r^2.
RECURSIVE BSqrtBits(_, _, _)
RECURSIVE BSqrtStep(_, _, _, _)
BSqrtStep(q, b, stop, t) ==
    IF BCmp(t, q.rem) <= 0
    THEN BSqrtBits([r |-> BAdd(q.r, BShl(<<1>>, b)), rem |-> BSub(q.rem, t)],
                   b - 1, stop)
    ELSE BSqrtBits(q, b - 1, stop)

BSqrtBits(q, b, stop) ==
    IF b < stop THEN q
    ELSE BSqrtStep(q, b, stop, BAdd(BShl(q.r, b + 1), BShl(<<1>>, 2 * b)))

RECURSIVE BSqrtFrom(_, _)
BSqrtFrom(q, b) ==
    IF Len(q.r) >= 0 /\ b >= 0
    THEN BSqrtFrom(BSqrtBits(q, b, Max(b - 7, 0)), Max(b - 7, 0) - 1)
    ELSE q

\* x ** 0.5 for x >= 0 (nan and inf are answered before pow() is called).
\* The digits of x are shifted up by k places, k chosen to leave an even
\* exponent; q.r is the integer square root of the shifted digits, and a
\* remainder other than zero counts as one more unit below its last place.
SqrtRound(q, e, cercano) ==
    PowRound(0, BAdd(BShl(q.r, 1), IF q.rem = <<>> THEN <<>> ELSE <<1>>), e,
             cercano)

SqrtShifted(x, k, cercano) ==
    SqrtRound(BSqrtFrom([r |-> <<>>, rem |-> BShl(x.m, k)], GuardBits),
              ((x.e - k) \div 2) - 1, cercano)

SqrtShift(x, k0, cercano) ==
    SqrtShifted(x, k0 + ((x.e - k0) % 2), cercano)

PowHalfWith(x, cercano) ==
    IF ~IsFinite(x) THEN x
    ELSE IF IsZero(x) THEN Zero(0)
    ELSE SqrtShift(x, 2 * GuardBits - BBitLen(x.m), cercano)

PowHalf(x) == PowHalfWith(x, pow_cercano)

\* ------------------------------------------------------------------------
\* Built-ins used by the program
\* ------------------------------------------------------------------------

\* str.strip() on the lines of the model's files
Strip(linea) == IF linea = " 2" THEN "2" ELSE linea

\* float(s): the correctly rounded binary64 value of the text, or ValueError
\*   "2" 0x1.0p+1   "0.1" 0x1.999999999999ap-4   "1e308" 0x1.1ccf385ebc8a0p+1023
ParseFloat(s) ==
    IF s = "2" THEN Valor(Fin(0, <<0, 0, 0, 128>>, -51))
    ELSE IF s = "0.1" THEN Valor(Fin(0, <<6554, 13107, 26214, 204>>, -56))
    ELSE IF s = "1e308" THEN Valor(Fin(0, <<18592, 3031, 13262, 142>>, 971))
    ELSE IF s = "nan" THEN Valor(NaN)
    ELSE IF s = "inf" THEN Valor(Inf(0))
    ELSE Lanza("ValueError")

\* sum(xs) of floats, start 0.  Up to CPython 3.11 the items are added from
\* left to right; from 3.12 on the float loop carries Neumaier's compensation:
\*     t = f + x
\*     c += (f - t) + x  if fabs(f) >= fabs(x)  else  (x - t) + f
\*     f = t
\* and the result is f + c when c is finite and not zero.
RECURSIVE SumaSimple(_, _, _)
SumaSimple(xs, i, f) ==
    IF i > Len(xs) THEN f ELSE SumaSimple(xs, i + 1, FAdd(f, xs[i]))

Mayor(f, x) == ~IsNaN(f) /\ ~IsNaN(x) /\ ~FLt(FAbs(f), FAbs(x))

Compensacion(big, t, small) == FAdd(FSub(big, t), small)

RECURSIVE SumaNeumaier(_, _, _, _)
RECURSIVE NeumaierStep(_, _, _, _, _)
NeumaierStep(xs, i, f, c, t) ==
    SumaNeumaier(xs, i + 1, t,
                 FAdd(c, Compensacion(IF Mayor(f, xs[i]) THEN f ELSE xs[i],
                                      t,
                                      IF Mayor(f, xs[i]) THEN xs[i] ELSE f)))

SumaNeumaier(xs, i, f, c) ==
    IF i > Len(xs)
    THEN (IF ~IsZero(c) /\ IsFinite(c) THEN FAdd(f, c) ELSE f)
    ELSE NeumaierStep(xs, i, f, c, FAdd(f, xs[i]))

SumFrom(xs, comp, f) ==
    IF comp THEN SumaNeumaier(xs, 2, f, Zero(0)) ELSE SumaSimple(xs, 2, f)

Sum(xs, comp) ==
    IF xs = <<>> THEN Zero(0) ELSE SumFrom(xs, comp, FAdd(Zero(0), xs[1]))

\* sorted(xs) for a list shorter than 64: list.sort finds the initial run
\* (count_run), reverses it when strictly descending, and inserts the rest by
\* binary insertion (binarysort).  Every comparison is x < y.
RECURSIVE RunDesc(_, _)
RunDesc(xs, i) ==
    IF i < Len(xs) /\ FLt(xs[i + 1], xs[i]) THEN RunDesc(xs, i + 1) ELSE i

RECURSIVE RunAsc(_, _)
RunAsc(xs, i) ==
    IF i < Len(xs) /\ ~FLt(xs[i + 1], xs[i]) THEN RunAsc(xs, i + 1) ELSE i

Reverse(xs) == [i \in 1..Len(xs) |-> xs[Len(xs) + 1 - i]]

RECURSIVE BinarySearch(_, _, _, _)
BinarySearch(xs, pivot, l, r) ==
    IF l >= r THEN l
    ELSE LET p == l + ((r - l) \div 2)
         IN  IF FLt(pivot, xs[p]) THEN BinarySearch(xs, pivot, l, p)
             ELSE BinarySearch(xs, pivot, p + 1, r)

Insert(xs, start, l) ==
    SubSeq(xs, 1, l - 1) \o <<xs[start]>> \o SubSeq(xs, l, start - 1)
        \o SubSeq(xs, start + 1, Len(xs))

RECURSIVE BinarySort(_, _)
BinarySort(xs, start) ==
    IF start > Len(xs) THEN xs
    ELSE BinarySort(Insert(xs, start, BinarySearch(xs, xs[start], 1, start)),
                    start + 1)

SortRun(xs, desc, n) ==
    BinarySort((IF desc THEN Reverse(SubSeq(xs, 1, n)) ELSE SubSeq(xs, 1, n))
                   \o SubSeq(xs, n + 1, Len(xs)),
               n + 1)

SortFrom(xs, desc) ==
    SortRun(xs, desc, IF desc THEN RunDesc(xs, 2) ELSE RunAsc(xs, 2))

Sorted(xs) ==
    IF Len(xs) < 2 THEN xs ELSE SortFrom(xs, FLt(xs[2], xs[1]))

\* ------------------------------------------------------------------------
\* CalculadoraEstadistica
\* ------------------------------------------------------------------------
CalculadoraEstadistica(datos) ==
    [datos |-> datos, n_elementos |-> Len(datos)]

calcular_media(self, comp) ==
    FDivInt(Sum(self.datos, comp), self.n_elementos)

Mediana(ordenados, n_elementos, mitad) ==
    IF n_elementos % 2 = 0
    THEN FDivInt(FAdd(ordenados[mitad], ordenados[mitad + 1]), 2)
    ELSE ordenados[mitad + 1]

\* Mutant: the median is read from the list as given, without sorting it.
calcular_mediana_unsorted(self) ==
    Mediana(self.datos, self.n_elementos, self.n_elementos \div 2)

calcular_mediana(self) ==
    Mediana(Sorted(self.datos), self.n_elementos, self.n_elementos \div 2)

\* frecuencias is a dict: its entries stay in the order of first insertion,
\* and a key matches an entry when the two floats compare equal (every nan
\* of the list is an object of its own and equals nothing).
RECURSIVE Buscar(_, _, _)
Buscar(frecuencias, numero, i) ==
    IF i > Len(frecuencias) THEN 0
    ELSE IF FEq(frecuencias[i].num, numero) THEN i
    ELSE Buscar(frecuencias, numero, i + 1)

RECURSIVE Frecuencias(_, _, _)
Frecuencias(datos, i, frecuencias) ==
    IF i > Len(datos) THEN frecuencias
    ELSE LET numero == datos[i]
             j      == Buscar(frecuencias, numero, 1)
         IN  Frecuencias(datos, i + 1,
               IF j = 0
               THEN Append(frecuencias, [num |-> numero, freq |-> 1])
               ELSE [frecuencias EXCEPT ![j].freq = @ + 1])

RECURSIVE MaxFreq(_, _, _)
MaxFreq(frecuencias, i, mx) ==
    IF i > Len(frecuencias) THEN mx
    ELSE MaxFreq(frecuencias, i + 1,
                 IF frecuencias[i].freq > mx THEN frecuencias[i].freq ELSE mx)

\* Mutant: the modes come out in the reverse of insertion order.
RECURSIVE Modas_reversed(_, _, _)
Modas_reversed(frecuencias, i, max_frecuencia) ==
    IF i > Len(frecuencias) THEN <<>>
    ELSE Modas_reversed(frecuencias, i + 1, max_frecuencia)
         \o (IF frecuencias[i].freq = max_frecuencia
             THEN <<frecuencias[i].num>> ELSE <<>>)

RECURSIVE Modas(_, _, _)
Modas(frecuencias, i, max_frecuencia) ==
    IF i > Len(frecuencias) THEN <<>>
    ELSE (IF frecuencias[i].freq = max_frecuencia
          THEN <<frecuencias[i].num>> ELSE <<>>)
         \o Modas(frecuencias, i + 1, max_frecuencia)

\* The three results of calcular_moda: the fixed text, the text that shows
\* the list of modes, or the float itself.
NoMode == [tag |-> "NoMode", list |-> <<>>, value |-> NaN]
MultipleModes(modas) == [tag |-> "MultipleModes", list |-> modas, value |-> NaN]
SingleMode(v) == [tag |-> "SingleMode", list |-> <<>>, value |-> v]

Clasificar(modas, n_elementos) ==
    IF Len(modas) = n_elementos THEN NoMode
    ELSE IF Len(modas) > 1 THEN MultipleModes(modas)
    ELSE SingleMode(modas[1])

ModasDe(frecuencias) ==
    Modas(frecuencias, 1, MaxFreq(frecuencias, 1, 0))

\* Mutant: "no mode" is decided by every count being one among several
\* values, so a single value is reported as the mode.
Clasificar_single_special(modas, n_elementos) ==
    IF Len(modas) = n_elementos /\ n_elementos > 1 THEN NoMode
    ELSE IF Len(modas) > 1 THEN MultipleModes(modas)
    ELSE SingleMode(modas[1])

calcular_moda_single_special(self) ==
    Clasificar_single_special(ModasDe(Frecuencias(self.datos, 1, <<>>)),
                              self.n_elementos)

\* Mutant: the test for several modes is len(modas) >= 1.
Clasificar_ge(modas, n_elementos) ==
    IF Len(modas) = n_elementos THEN NoMode
    ELSE IF Len(modas) >= 1 THEN MultipleModes(modas)
    ELSE SingleMode(modas[1])

calcular_moda_ge(self) ==
    Clasificar_ge(ModasDe(Frecuencias(self.datos, 1, <<>>)), self.n_elementos)

calcular_moda(self) ==
    Clasificar(ModasDe(Frecuencias(self.datos, 1, <<>>)), self.n_elementos)

\* the terms (x - media) ** 2, up to and including the first that raises
Cons(t, rest) ==
    IF rest.exc # "none" THEN rest ELSE Valor(<<t.val>> \o rest.val)

RECURSIVE Cuadrados(_, _, _)
RECURSIVE CuadradosDesde(_, _, _, _)
CuadradosDesde(datos, media, i, t) ==
    IF t.exc # "none" THEN t ELSE Cons(t, Cuadrados(datos, media, i + 1))

Cuadrados(datos, media, i) ==
    IF i > Len(datos) THEN Valor(<<>>)
    ELSE CuadradosDesde(datos, media, i, Pow2(FSub(datos[i], media)))

Varianza(cuadrados, n_elementos, comp) ==
    IF cuadrados.exc # "none" THEN cuadrados
    ELSE Valor(FDivInt(Sum(cuadrados.val, comp), n_elementos))

\* Mutant: sample variance, the sum is divided by n - 1.
Varianza_sample(cuadrados, n_elementos, comp) ==
    IF cuadrados.exc # "none" THEN cuadrados
    ELSE IF n_elementos = 1 THEN Lanza("ZeroDivisionError")
    ELSE Valor(FDivInt(Sum(cuadrados.val, comp), n_elementos - 1))

calcular_varianza_sample(self, media, comp) ==
    Varianza_sample(Cuadrados(self.datos, media, 1), self.n_elementos, comp)

calcular_varianza(self, media, comp) ==
    Varianza(Cuadrados(self.datos, media, 1), self.n_elementos, comp)

calcular_desviacion_estandar(varianza) == PowHalf(varianza)

\* ------------------------------------------------------------------------
\* One run of main()
\* ------------------------------------------------------------------------
MaxLines == 4

\* the lines a file of the model is made of (without the line terminator)
Lineas == {" 2", "0.1", "1e308", "nan", "inf", "abc"}

Archivos == UNION {[1..n -> Lineas] : n \in 0..MaxLines}

VARIABLES
    argv,            \* sys.argv
    estado_archivo,  \* "ok", "no_existe" or "ilegible": what open() meets
    archivo,         \* the lines of the input file
    compensada,      \* the interpreter's sum() compensates (CPython >= 3.12)
    pc,              \* position of the run
    num_linea,       \* leer_archivo: number of the last line read
    numeros,         \* leer_archivo: the list being built
    errores,         \* line numbers printed as "Error en linea ..."
    calculadora,     \* <<>> or <<the CalculadoraEstadistica of main>>
    media, mediana, moda, varianza, desviacion,   \* main's locals
    llamadas,        \* the statistic operations invoked so far
    salida,          \* what this run appended to StatisticsResults.txt
    excepcion,       \* the exception main caught, or "none"
    codigo_salida    \* exit status, -1 while running

vars == <<argv, estado_archivo, archivo, compensada, pow_cercano, pc,
          num_linea, numeros, errores, calculadora, media, mediana, moda,
          varianza, desviacion, llamadas, salida, excepcion, codigo_salida>>

entorno == <<argv, estado_archivo, archivo, compensada, pow_cercano>>
locales == <<media, mediana, moda, varianza, desviacion>>

Ninguno == [k |-> "none", s |-> 0, m |-> <<>>, e |-> 0]
SinModa == [tag |-> "none", list |-> <<>>, value |-> NaN]

Init ==
    /\ argv \in {<<"computeStatistics.py">>,
                 <<"computeStatistics.py", "datos.txt">>}
    /\ estado_archivo \in {"ok", "no_existe", "ilegible"}
    /\ IF Len(argv) = 2 /\ estado_archivo = "ok"
       THEN /\ archivo \in Archivos
            /\ compensada \in BOOLEAN
            /\ pow_cercano \in BOOLEAN
       ELSE archivo = <<>> /\ compensada = FALSE /\ pow_cercano = TRUE
    /\ pc = "main"
    /\ num_linea = 0
    /\ numeros = <<>>
    /\ errores = <<>>
    /\ calculadora = <<>>
    /\ media = Ninguno /\ mediana = Ninguno /\ moda = SinModa
    /\ varianza = Ninguno /\ desviacion = Ninguno
    /\ llamadas = <<>>
    /\ salida = <<>>
    /\ excepcion = "none"
    /\ codigo_salida = -1

\* sys.exit(1) from one of main's handlers
Salir1(exc) ==
    /\ excepcion' = exc
    /\ codigo_salida' = 1
    /\ pc' = "fin"

\* main: len(sys.argv) != 2
UsoIncorrecto ==
    /\ pc = "main" /\ Len(argv) # 2
    /\ Salir1("none")
    /\ UNCHANGED <<entorno, num_linea, numeros, errores, calculadora, locales,
                   llamadas, salida>>

\* main calls leer_archivo; open() succeeds
AbrirArchivo ==
    /\ pc = "main" /\ Len(argv) = 2 /\ estado_archivo = "ok"
    /\ pc' = "leer"
    /\ UNCHANGED <<entorno, num_linea, numeros, errores, calculadora, locales,
                   llamadas, salida, excepcion, codigo_salida>>

\* open() or the read fails: ArchivoError, caught by main
ArchivoIlegible ==
    /\ pc = "main" /\ Len(argv) = 2 /\ estado_archivo # "ok"
    /\ Salir1("ArchivoError")
    /\ UNCHANGED <<entorno, num_linea, numeros, errores, calculadora, locales,
                   llamadas, salida>>

\* Mutant: the try of line 46 is around the whole loop, so the first line
\* that float() rejects is reported and ends the reading.
LeerLinea_abort ==
    /\ pc = "leer" /\ num_linea < Len(archivo)
    /\ \E numero \in {ParseFloat(Strip(archivo[num_linea + 1]))} :
           IF numero.exc = "none"
           THEN /\ numeros' = Append(numeros, numero.val)
                /\ num_linea' = num_linea + 1
                /\ UNCHANGED errores
           ELSE /\ errores' = Append(errores, num_linea + 1)
                /\ num_linea' = Len(archivo)
                /\ UNCHANGED numeros
    /\ UNCHANGED <<entorno, pc, calculadora, locales, llamadas, salida,
                   excepcion, codigo_salida>>

\* one iteration of the loop over the lines
LeerLinea ==
    /\ pc = "leer" /\ num_linea < Len(archivo)
    /\ num_linea' = num_linea + 1
    /\ \E numero \in {ParseFloat(Strip(archivo[num_linea + 1]))} :
           IF numero.exc = "none"
           THEN /\ numeros' = Append(numeros, numero.val)
                /\ UNCHANGED errores
           ELSE /\ errores' = Append(errores, num_linea + 1)
                /\ UNCHANGED numeros
    /\ UNCHANGED <<entorno, pc, calculadora, locales, llamadas, salida,
                   excepcion, codigo_salida>>

\* end of file with no number: ArchivoError, caught by main
SinNumeros ==
    /\ pc = "leer" /\ num_linea = Len(archivo) /\ numeros = <<>>
    /\ Salir1("ArchivoError")
    /\ UNCHANGED <<entorno, num_linea, numeros, errores, calculadora, locales,
                   llamadas, salida>>

\* Mutant: leer_archivo returns the list without looking whether it is empty.
DevolverNumeros_unchecked ==
    /\ pc = "leer" /\ num_linea = Len(archivo)
    /\ pc' = "construir"
    /\ UNCHANGED <<entorno, num_linea, numeros, errores, calculadora, locales,
                   llamadas, salida, excepcion, codigo_salida>>

\* end of file: leer_archivo returns numeros
DevolverNumeros ==
    /\ pc = "leer" /\ num_linea = Len(archivo) /\ numeros # <<>>
    /\ pc' = "construir"
    /\ UNCHANGED <<entorno, num_linea, numeros, errores, calculadora, locales,
                   llamadas, salida, excepcion, codigo_salida>>

Construir ==
    /\ pc = "construir"
    /\ calculadora' = <<CalculadoraEstadistica(numeros)>>
    /\ pc' = "media"
    /\ UNCHANGED <<entorno, num_linea, numeros, errores, locales, llamadas,
                   salida, excepcion, codigo_salida>>

CalcularMedia ==
    /\ pc = "media"
    /\ media' = calcular_media(calculadora[1], compensada)
    /\ llamadas' = Append(llamadas, "calcular_media")
    /\ pc' = "mediana"
    /\ UNCHANGED <<entorno, num_linea, numeros, errores, calculadora, mediana,
                   moda, varianza, desviacion, salida, excepcion,
                   codigo_salida>>

CalcularMediana ==
    /\ pc = "mediana"
    /\ mediana' = calcular_mediana(calculadora[1])
    /\ llamadas' = Append(llamadas, "calcular_mediana")
    /\ pc' = "moda"
    /\ UNCHANGED <<entorno, num_linea, numeros, errores, calculadora, media,
                   moda, varianza, desviacion, salida, excepcion,
                   codigo_salida>>

CalcularModa ==
    /\ pc = "moda"
    /\ moda' = calcular_moda(calculadora[1])
    /\ llamadas' = Append(llamadas, "calcular_moda")
    /\ pc' = "varianza"
    /\ UNCHANGED <<entorno, num_linea, numeros, errores, calculadora, media,
                   mediana, varianza, desviacion, salida, excepcion,
                   codigo_salida>>

\* calcular_varianza(media); an OverflowError is caught by main
CalcularVarianza ==
    /\ pc = "varianza"
    /\ llamadas' = Append(llamadas, "calcular_varianza")
    /\ \E r \in {calcular_varianza(calculadora[1], media, compensada)} :
           IF r.exc = "none"
           THEN /\ varianza' = r.val
                /\ pc' = "desviacion"
                /\ UNCHANGED <<excepcion, codigo_salida>>
           ELSE /\ Salir1(r.exc)
                /\ UNCHANGED varianza
    /\ UNCHANGED <<entorno, num_linea, numeros, errores, calculadora, media,
                   mediana, moda, desviacion, salida>>

CalcularDesviacion ==
    /\ pc = "desviacion"
    /\ desviacion' = calcular_desviacion_estandar(varianza)
    /\ llamadas' = Append(llamadas, "calcular_desviacion_estandar")
    /\ pc' = "guardar"
    /\ UNCHANGED <<entorno, num_linea, numeros, errores, calculadora, media,
                   mediana, moda, varianza, salida, excepcion, codigo_salida>>

\* the text main builds from its locals
Resultados ==
    [cantidad |-> Len(numeros), media |-> media, mediana |-> mediana,
     moda |-> moda, varianza |-> varianza, desviacion |-> desviacion]

\* guardar_resultados appends the text; main ends normally
GuardarResultados ==
    /\ pc = "guardar"
    /\ salida' = Append(salida, Resultados)
    /\ codigo_salida' = 0
    /\ pc' = "fin"
    /\ UNCHANGED <<entorno, num_linea, numeros, errores, calculadora, locales,
                   llamadas, excepcion>>

\* the write fails: guardar_resultados re-raises IOError, caught by main
GuardarFalla ==
    /\ pc = "guardar"
    /\ Salir1("IOError")
    /\ UNCHANGED <<entorno, num_linea, numeros, errores, calculadora, locales,
                   llamadas, salida>>

Next ==
    \/ UsoIncorrecto
    \/ AbrirArchivo
    \/ ArchivoIlegible
    \/ LeerLinea
    \/ SinNumeros
    \/ DevolverNumeros
    \/ Construir
    \/ CalcularMedia
    \/ CalcularMediana
    \/ CalcularModa
    \/ CalcularVarianza
    \/ CalcularDesviacion
    \/ GuardarResultados
    \/ GuardarFalla

Spec == Init /\ [][Next]_vars

\* ------------------------------------------------------------------------
\* A client of the class: it builds one calculator from what leer_archivo
\* returned and calls the five operations in any order, any number of times
\* up to MaxLlamadas.
\* ------------------------------------------------------------------------
MaxDatos == 2
MaxLlamadas == 2

\* the loop of leer_archivo over the lines from number i on
RECURSIVE LeerDesde(_, _, _, _)
LeerDesde(lineas, i, nums, errs) ==
    IF i > Len(lineas) THEN [numeros |-> nums, errores |-> errs]
    ELSE IF ParseFloat(Strip(lineas[i])).exc = "none"
    THEN LeerDesde(lineas, i + 1,
                   Append(nums, ParseFloat(Strip(lineas[i])).val), errs)
    ELSE LeerDesde(lineas, i + 1, nums, Append(errs, i))

\* leer_archivo on a readable file: the numbers and the reported lines
leer_archivo(lineas) == LeerDesde(lineas, 1, <<>>, <<>>)

\* one call of an operation: its name, its arguments and what it returned
\* or raised
Llamada(op, args, res) == [op |-> op, args |-> args, res |-> res]

\* the calculator exists: leer_archivo returned numeros (not empty) and
\* CalculadoraEstadistica(numeros) was evaluated
InitCliente ==
    /\ argv = <<"computeStatistics.py", "datos.txt">>
    /\ estado_archivo = "ok"
    /\ archivo \in UNION {[1..n -> Lineas] : n \in 1..MaxDatos}
    /\ compensada \in BOOLEAN
    /\ pow_cercano \in BOOLEAN
    /\ numeros = leer_archivo(archivo).numeros
    /\ numeros # <<>>
    /\ errores = leer_archivo(archivo).errores
    /\ num_linea = Len(archivo)
    /\ calculadora = <<CalculadoraEstadistica(numeros)>>
    /\ pc = "cliente"
    /\ media = Ninguno /\ mediana = Ninguno /\ moda = SinModa
    /\ varianza = Ninguno /\ desviacion = Ninguno
    /\ llamadas = <<>>
    /\ salida = <<>>
    /\ excepcion = "none"
    /\ codigo_salida = -1

\* the float the client passes where an operation takes one: the value it
\* got from the operation before, or the first number when it has none
Argumento(previo) == IF previo # Ninguno THEN previo ELSE numeros[1]

PuedeLlamar == pc = "cliente" /\ Len(llamadas) < MaxLlamadas

\* self.calcular_media(): reads self.datos and self.n_elementos
LlamarMedia ==
    /\ PuedeLlamar
    /\ \E r \in {calcular_media(calculadora[1], compensada)} :
           /\ media' = r
           /\ llamadas' = Append(llamadas,
                                 Llamada("calcular_media", <<>>, Valor(r)))
    /\ UNCHANGED <<entorno, pc, num_linea, numeros, errores, calculadora,
                   mediana, moda, varianza, desviacion, salida, excepcion,
                   codigo_salida>>

\* Mutant: calcular_mediana sorts the list of the calculator itself
\* (self.datos.sort()) instead of a copy.
LlamarMediana_en_sitio ==
    /\ PuedeLlamar
    /\ \E r \in {calcular_mediana(calculadora[1])} :
           /\ mediana' = r
           /\ llamadas' = Append(llamadas,
                                 Llamada("calcular_mediana", <<>>, Valor(r)))
    /\ calculadora' = <<[calculadora[1] EXCEPT !.datos = Sorted(@)]>>
    /\ UNCHANGED <<entorno, pc, num_linea, numeros, errores,
                   media, moda, varianza, desviacion, salida, excepcion,
                   codigo_salida>>

\* self.calcular_mediana(): sorted() sorts a copy of self.datos
LlamarMediana ==
    /\ PuedeLlamar
    /\ \E r \in {calcular_mediana(calculadora[1])} :
           /\ mediana' = r
           /\ llamadas' = Append(llamadas,
                                 Llamada("calcular_mediana", <<>>, Valor(r)))
    /\ UNCHANGED <<entorno, pc, num_linea, numeros, errores, calculadora,
                   media, moda, varianza, desviacion, salida, excepcion,
                   codigo_salida>>

\* self.calcular_moda(): frecuencias and modas are locals
LlamarModa ==
    /\ PuedeLlamar
    /\ \E r \in {calcular_moda(calculadora[1])} :
           /\ moda' = r
           /\ llamadas' = Append(llamadas,
                                 Llamada("calcular_moda", <<>>, Valor(r)))
    /\ UNCHANGED <<entorno, pc, num_linea, numeros, errores, calculadora,
                   media, mediana, varianza, desviacion, salida, excepcion,
                   codigo_salida>>

\* self.calcular_varianza(m); an OverflowError reaches the client, which
\* goes on
LlamarVarianza ==
    /\ PuedeLlamar
    /\ \E m \in {Argumento(media)} :
         \E r \in {calcular_varianza(calculadora[1], m, compensada)} :
           /\ varianza' = IF r.exc = "none" THEN r.val ELSE varianza
           /\ llamadas' = Append(llamadas,
                                 Llamada("calcular_varianza", <<m>>, r))
    /\ UNCHANGED <<entorno, pc, num_linea, numeros, errores, calculadora,
                   media, mediana, moda, desviacion, salida, excepcion,
                   codigo_salida>>

\* CalculadoraEstadistica.calcular_desviacion_estandar(v): a static method
LlamarDesviacion ==
    /\ PuedeLlamar
    /\ \E v \in {Argumento(varianza)} :
         \E r \in {calcular_desviacion_estandar(v)} :
           /\ desviacion' = r
           /\ llamadas' = Append(llamadas,
                   Llamada("calcular_desviacion_estandar", <<v>>, Valor(r)))
    /\ UNCHANGED <<entorno, pc, num_linea, numeros, errores, calculadora,
                   media, mediana, moda, varianza, salida, excepcion,
                   codigo_salida>>

NextCliente ==
    \/ LlamarMedia
    \/ LlamarMediana
    \/ LlamarModa
    \/ LlamarVarianza
    \/ LlamarDesviacion

SpecCliente == InitCliente /\ [][NextCliente]_vars

\* ------------------------------------------------------------------------
\* Properties
\* ------------------------------------------------------------------------
Construida == calculadora # <<>>
Datos == calculadora[1].datos
N == Len(Datos)

\* x and y are the same float: equal, or both nan
SameValue(x, y) == FEq(x, y) \/ (IsNaN(x) /\ IsNaN(y))

FLe(x, y) == FLt(x, y) \/ FEq(x, y)

\* number of elements of d that are the element at position i: the element
\* itself and those that compare equal to it
Occ(d, i) == Cardinality({j \in 1..Len(d) : j = i \/ FEq(d[j], d[i])})

MaxOcc(d) == CHOOSE c \in 1..Len(d) :
                /\ \E i \in 1..Len(d) : Occ(d, i) = c
                /\ \A i \in 1..Len(d) : Occ(d, i) <= c

Distintos(d) == \A i, j \in 1..Len(d) : i # j => ~FEq(d[i], d[j])

\* positions where a value of maximum count occurs for the first time
Primeras(d) ==
    {i \in 1..Len(d) : /\ Occ(d, i) = MaxOcc(d)
                       /\ \A j \in 1..(i - 1) : ~FEq(d[j], d[i])}

RECURSIVE EnOrden(_)
EnOrden(S) ==
    IF S = {} THEN <<>>
    ELSE LET m == CHOOSE x \in S : \A y \in S : x <= y
         IN  <<m>> \o EnOrden(S \ {m})

\* the values at the positions of P, by increasing position
ValoresEn(d, P) == [k \in 1..Cardinality(P) |-> d[EnOrden(P)[k]]]

\* C1: calcular_moda returns the NoMode sentinel if and only if the values of
\* the dataset are pairwise distinct; so a single-element dataset is NoMode
\* and n >= 2 identical values are never NoMode.
C1_NoModeIffDistinct ==
    moda # SinModa => (moda.tag = "NoMode" <=> Distintos(Datos))

C1_Witness ==
    /\ pc = "varianza" /\ N = 1 /\ moda = NoMode

\* C2: when at least two distinct values share the maximum count and that
\* count is above one, calcular_moda returns MultipleModes with exactly the
\* values of maximum count, each once, in order of first occurrence.
C2_Tied(d) ==
    /\ MaxOcc(d) > 1
    /\ \E i, j \in 1..Len(d) : /\ ~FEq(d[i], d[j])
                               /\ Occ(d, i) = MaxOcc(d)
                               /\ Occ(d, j) = MaxOcc(d)

C2_MultipleModesInFirstOccurrenceOrder ==
    (moda # SinModa /\ C2_Tied(Datos))
        => moda = MultipleModes(ValoresEn(Datos, Primeras(Datos)))

C2_Witness ==
    /\ pc = "varianza" /\ C2_Tied(Datos)
    /\ moda.tag = "MultipleModes" /\ Len(moda.list) = 2
    /\ FLt(moda.list[2], moda.list[1])

\* C3: calcular_moda yields exactly one of NoMode, MultipleModes(list),
\* SingleMode(value), and SingleMode(v) exactly when v is the only value of
\* maximum count and the dataset has more than one element.
C3_ExactlyOneOutcome ==
    moda # SinModa =>
        /\ moda.tag \in {"NoMode", "MultipleModes", "SingleMode"}
        /\ moda.tag = "MultipleModes" => Len(moda.list) > 1
        /\ moda.tag = "SingleMode"
             <=> (N > 1 /\ Cardinality(Primeras(Datos)) = 1)
        /\ moda.tag = "SingleMode"
             => \E i \in Primeras(Datos) : moda.value = Datos[i]

C3_Witness ==
    /\ pc = "varianza" /\ N = 3
    /\ \A i \in 1..N : FEq(Datos[i], Datos[1])
    /\ moda = SingleMode(Datos[1])

\* C4: a run of main on a readable file with no line that parses as a
\* number ends in ArchivoError with exit code 1; no calculator is built, no
\* statistic operation is invoked and nothing is appended to the results.
SinLineasValidas ==
    \A i \in 1..Len(archivo) : ParseFloat(Strip(archivo[i])).exc # "none"

C4_EmptyDatasetRejected ==
    (Len(argv) = 2 /\ estado_archivo = "ok" /\ SinLineasValidas) =>
        /\ pc \in {"main", "leer", "fin"}
        /\ calculadora = <<>>
        /\ llamadas = <<>>
        /\ salida = <<>>
        /\ codigo_salida # 0
        /\ pc = "fin" => (excepcion = "ArchivoError" /\ codigo_salida = 1)
        /\ pc # "fin" => ENABLED Next

C4_Witness ==
    /\ pc = "fin" /\ Len(archivo) >= 2 /\ SinLineasValidas
    /\ Len(errores) = Len(archivo)
    /\ excepcion = "ArchivoError" /\ codigo_salida = 1

\* the k-th smallest value of a list without nan (k from 1)
Kth(d, k) ==
    d[CHOOSE i \in 1..Len(d) :
        /\ Cardinality({j \in 1..Len(d) : FLt(d[j], d[i])}) < k
        /\ k <= Cardinality({j \in 1..Len(d) : ~FLt(d[i], d[j])})]

SinNaN(d) == \A i \in 1..Len(d) : ~IsNaN(d[i])

Finitos(d) == \A i \in 1..Len(d) : IsFinite(d[i])

\* C5: with s the ascending arrangement of the n values, calcular_mediana
\* returns s[n // 2] (from 0) when n is odd and (s[n/2 - 1] + s[n/2]) / 2
\* when n is even; for n = 1 it returns the single element.  (A list of two
\* or more values with a nan among them has no ascending arrangement.)
C5_MedianOfSorted ==
    mediana # Ninguno =>
        /\ N = 1 => SameValue(mediana, Datos[1])
        /\ (SinNaN(Datos) /\ N % 2 = 1)
              => SameValue(mediana, Kth(Datos, (N \div 2) + 1))
        /\ (SinNaN(Datos) /\ N % 2 = 0)
              => SameValue(mediana,
                           FDivInt(FAdd(Kth(Datos, N \div 2),
                                        Kth(Datos, (N \div 2) + 1)), 2))

C5_Witness ==
    /\ pc = "moda" /\ N = 4 /\ Finitos(Datos)
    /\ FLt(Datos[2], Datos[1]) /\ FLt(Datos[4], Datos[3])
    /\ IsFinite(mediana)

\* the lists with the same elements as d, in every order
Permutaciones(d) ==
    {[i \in 1..Len(d) |-> d[f[i]]] :
        f \in {g \in [1..Len(d) -> 1..Len(d)] :
                  \A i, j \in 1..Len(d) : i # j => g[i] # g[j]}}

\* C6: the median of a calculator built from any permutation of the dataset
\* is the median of the calculator built from the dataset.
C6_MedianPermutationInvariant ==
    pc = "moda" =>
        \A p \in Permutaciones(Datos) :
            SameValue(calcular_mediana(CalculadoraEstadistica(p)), mediana)

\* the same, for datasets without nan
C6_MedianPermutationInvariantSinNaN ==
    (pc = "moda" /\ SinNaN(Datos)) =>
        \A p \in Permutaciones(Datos) :
            SameValue(calcular_mediana(CalculadoraEstadistica(p)), mediana)

\* C7: the median lies between the minimum and the maximum of the dataset,
\* inclusive (here for the datasets of finite values).
C7_MedianWithinRange ==
    (mediana # Ninguno /\ Finitos(Datos)) =>
        /\ \E i \in 1..N : FLe(Datos[i], mediana)
        /\ \E i \in 1..N : FLe(mediana, Datos[i])

\* C8: the variance computed from the dataset's own mean is >= 0, and it is
\* 0 if and only if all the values are equal (here for the datasets of finite
\* values).
C8_VarianceZeroIffAllEqual ==
    (varianza # Ninguno /\ Finitos(Datos)) =>
        /\ FLe(Zero(0), varianza)
        /\ IsZero(varianza) <=> \A i \in 1..N : FEq(Datos[i], Datos[1])

\* sum((x - m) ** 2 for x in d) / n
VarianzaPoblacional(d, m, n, comp) ==
    FDivInt(Sum([i \in 1..Len(d) |-> Pow2(FSub(d[i], m)).val], comp), n)

\* C9: the variance main reports is sum((x - m)^2 for x in dataset) / n with
\* m the value main reports as the mean and n the length of the dataset.
C9_VarianceFromReportedMean ==
    /\ varianza # Ninguno
          => varianza = VarianzaPoblacional(numeros, media, Len(numeros),
                                            compensada)
    /\ codigo_salida = 0
          => /\ Len(salida) = 1
             /\ salida[1].cantidad = Len(numeros)
             /\ salida[1].varianza
                  = VarianzaPoblacional(numeros, salida[1].media,
                                        salida[1].cantidad, compensada)

C9_Witness ==
    /\ codigo_salida = 0 /\ Len(numeros) = 4
    /\ IsFinite(salida[1].varianza) /\ ~IsZero(salida[1].varianza)
    /\ ~FEq(numeros[1], numeros[2])

\* C10: every dataset leer_archivo returns, and so every dataset a calculator
\* is built from, holds finite numbers only.
C10_DatasetFinite ==
    /\ pc = "construir" => Finitos(numeros)
    /\ Construida => Finitos(Datos)

\* float() accepts the stripped line
Parsea(linea) == ParseFloat(Strip(linea)).exc = "none"

\* among the first k lines of the file, the numbers of those that parse
LineasValidas(k) == {i \in 1..k : Parsea(archivo[i])}

\* C11: leer_archivo skips each malformed line without aborting: the list it
\* builds and returns holds exactly the values of the lines that parse, one
\* per line and in file order; each line that does not parse is reported with
\* its 1-based number counting all lines; the reading ends only at the end of
\* the file, so a malformed line never keeps out a later valid one.
C11_SkipsMalformedLines ==
    estado_archivo = "ok" =>
        /\ num_linea <= Len(archivo)
        /\ Len(numeros) = Cardinality(LineasValidas(num_linea))
        /\ \A k \in 1..Len(numeros) :
              numeros[k] = ParseFloat(Strip(
                  archivo[EnOrden(LineasValidas(num_linea))[k]])).val
        /\ errores = EnOrden((1..num_linea) \ LineasValidas(num_linea))
        /\ pc \notin {"main", "leer"} => num_linea = Len(archivo)
        /\ Construida => Datos = numeros

C11_Witness ==
    /\ pc = "construir" /\ Len(archivo) = 4
    /\ errores = <<1, 3>> /\ Len(numeros) = 2
    /\ Finitos(numeros) /\ ~FEq(numeros[1], numeros[2])

\* a calculator newly built from the list leer_archivo returned
Fresca == CalculadoraEstadistica(numeros)

\* what the operation of a recorded call gives, with the same arguments, as
\* the first call on a new calculator
ResultadoFresco(ll) ==
    CASE ll.op = "calcular_media"
           -> Valor(calcular_media(Fresca, compensada))
      [] ll.op = "calcular_mediana"
           -> Valor(calcular_mediana(Fresca))
      [] ll.op = "calcular_moda"
           -> Valor(calcular_moda(Fresca))
      [] ll.op = "calcular_varianza"
           -> calcular_varianza(Fresca, ll.args[1], compensada)
      [] ll.op = "calcular_desviacion_estandar"
           -> Valor(calcular_desviacion_estandar(ll.args[1]))

\* C12: the five operations are pure with respect to the calculator: after
\* any sequence of calls, in any order and with repetitions, datos has the
\* contents and the order it was built with, n_elementos equals len(datos)
\* and is not zero, and the call just made returned (or raised) what the
\* same call gives as the first one on a newly built calculator.  (Every
\* call of a sequence is the last call of the state it led to.)
C12_OperationsPure ==
    /\ Datos = numeros
    /\ calculadora[1].n_elementos = Len(Datos)
    /\ calculadora[1].n_elementos # 0
    /\ llamadas # <<>> =>
          llamadas[Len(llamadas)].res
              = ResultadoFresco(llamadas[Len(llamadas)])

C12_Witness ==
    /\ Len(llamadas) = 2
    /\ llamadas[1].op = "calcular_mediana"
    /\ llamadas[2].op = "calcular_moda"
    /\ N = 2 /\ Finitos(Datos) /\ FLt(Datos[2], Datos[1])
    /\ llamadas[2].res.val.tag = "NoMode"

====
